---- MODULE Spec2Model ----
(***************************************************************************)
(* Model of app.py: the credential resolver get_api_key, the invoker       *)
(* ask_expert and the form-submission handler (the "if submitted:" block). *)
(*                                                                         *)
(* Python strings that the program computes with are sequences of          *)
(* characters (tokens); None is the empty tuple and a present optional     *)
(* value v is <<v>>.  The Japanese literals of the source are named by     *)
(* ASCII identifiers.                                                      *)
(***************************************************************************)
EXTENDS Naturals, Sequences, FiniteSets

VARIABLES
    secretsFile,    \* whether st.secrets can be loaded (a secrets file exists)
    secretStore,    \* st.secrets' entry for OPENAI_API_KEY: None or <<value>>
    environ,        \* os.environ's entry for OPENAI_API_KEY: None or <<value>>
    pc,             \* position of the single script thread
    caller,         \* who invoked ask_expert: the form handler or a direct caller
    expert_choice,  \* persona tag of the current run
    user_input,     \* text of the text area (handler) of the current run
    temperature,    \* slider value, in hundredths
    input_text,     \* ask_expert's first parameter
    api_key,        \* ask_expert's local api_key: None or <<value>>
    reads,          \* configuration sources consulted by get_api_key, in order
    steps,          \* steps executed in the current run, in order
    sent,           \* requests passed to llm.invoke in the current run
    result,         \* object returned by llm.invoke: None or <<response>>
    answer,         \* value returned by ask_expert: None or <<string>>
    exc,            \* exception in flight or handled: None or <<exception>>
    spinner,        \* whether the st.spinner block is open
    panels,         \* what the page shows for the current run, in order
    runs,           \* number of runs started
    totalCalls      \* remote calls made since process start

vars == <<secretsFile, secretStore, environ, pc, caller, expert_choice,
          user_input, temperature, input_text, api_key, reads, steps, sent,
          result, answer, exc, spinner, panels, runs, totalCalls>>

config == <<secretsFile, secretStore, environ>>

\* ---------------------------------------------------------------- bounds

MaxLen == 2

MaxRuns == 2

\* ------------------------------------------------------------ value sets

None == <<>>

Some(v) == <<v>>

Whitespace == {" ", "\n"}

Chars == Whitespace \cup {"a"}

Texts == UNION {[1..k -> Chars] : k \in 0..MaxLen}

\* the options of the selectbox
UiPersonas == {"A", "B"}

\* tags a direct caller of ask_expert may pass besides the valid ones
OtherTags == {"C", "a"}

\* the slider's range is 0.0 .. 1.0, default 0.2
Temperatures == {0, 20, 100}

KeyValues == {None, Some(""), Some("sk-secret")}

EnvValues == {None, Some(""), Some("sk-env")}

\* --------------------------------------------------------- pure helpers

\* Python truthiness of an optional string
Truthy(opt) == opt # None /\ opt[1] # ""

RECURSIVE LStrip(_)
LStrip(s) ==
    IF s = <<>> THEN s
    ELSE IF Head(s) \in Whitespace THEN LStrip(Tail(s)) ELSE s

RECURSIVE RStrip(_)
RStrip(s) ==
    IF s = <<>> THEN s
    ELSE IF s[Len(s)] \in Whitespace THEN RStrip(SubSeq(s, 1, Len(s) - 1)) ELSE s

\* str.strip()
Strip(s) == RStrip(LStrip(s))

\* variant: the text is tested without strip()
IsBlankNoStrip(text) == text = <<>>

\* "not user_input.strip()"
IsBlank(text) == Strip(text) = <<>>

\* -------------------------------------------------------- get_api_key

\* variant: the environment variable takes precedence
GetApiKeyEnvFirst(file, store, env) ==
    IF Truthy(env) THEN [raised |-> FALSE, key |-> env, reads |-> <<"env">>]
    ELSE IF ~file THEN [raised |-> TRUE, key |-> None, reads |-> <<"env", "secrets">>]
    ELSE [raised |-> FALSE, key |-> store, reads |-> <<"env", "secrets">>]

\* variant: the environment fallback is missing
GetApiKeyNoFallback(file, store, env) ==
    IF ~file THEN [raised |-> TRUE, key |-> None, reads |-> <<"secrets">>]
    ELSE [raised |-> FALSE, key |-> store, reads |-> <<"secrets">>]

\* variant: os.getenv is called whatever the secret store yields
GetApiKeyAlwaysEnv(file, store, env) ==
    IF ~file THEN [raised |-> TRUE, key |-> None, reads |-> <<"secrets">>]
    ELSE [raised |-> FALSE,
          key |-> IF Truthy(store) THEN store ELSE env,
          reads |-> <<"secrets", "env">>]

\* st.secrets.get raises when no secrets can be loaded; otherwise it yields
\* the entry or the default None.  os.getenv is called only when that value
\* is falsy, and its result is returned as it is.
get_api_key(file, store, env) ==
    IF ~file THEN [raised |-> TRUE, key |-> None, reads |-> <<"secrets">>]
    ELSE IF ~Truthy(store)
         THEN [raised |-> FALSE, key |-> env, reads |-> <<"secrets", "env">>]
         ELSE [raised |-> FALSE, key |-> store, reads |-> <<"secrets">>]

\* ----------------------------------------------------------- ask_expert

SYSTEM_PROMPTS == [A |-> "PROMPT_COOKING_EXPERT", B |-> "PROMPT_FINANCE_EXPERT"]

\* variant: the persona check is missing
ValidPersonaAcceptAll(tag) == TRUE

\* "expert_choice in SYSTEM_PROMPTS"
ValidPersona(tag) == tag \in DOMAIN SYSTEM_PROMPTS

\* variant: "if api_key is None" instead of "if not api_key"
KeyMissingOnlyNone(key) == key = None

\* "if not api_key"
KeyMissing(key) == ~Truthy(key)

BuildMessages(text, tag) ==
    << [role |-> "system", content |-> SYSTEM_PROMPTS[tag]],
       [role |-> "human", content |-> text] >>

BuildRequest(key, temp, text, tag) ==
    [api_key |-> key, model |-> "gpt-4o-mini", temperature |-> temp,
     messages |-> BuildMessages(text, tag)]

\* what llm.invoke may return: an object with a content attribute, or an
\* object without one whose str() is Python's default representation
Responses ==
    {[hasContent |-> TRUE, content |-> c, typeName |-> "AIMessage"] :
        c \in {<<>>, <<"T", "t">>, <<" ", "t">>}}
    \cup {[hasContent |-> FALSE, content |-> <<>>, typeName |-> "object"]}

\* str(result) of an object that does not define __str__
Str(obj) == <<"<", obj.typeName, " object>">>

\* variant: the content is stripped before it is returned
ExtractTextStripped(obj) == IF obj.hasContent THEN Strip(obj.content) ELSE Str(obj)

\* result.content if hasattr(result, "content") else str(result)
ExtractText(obj) == IF obj.hasContent THEN obj.content ELSE Str(obj)

\* ------------------------------------------------------------ exceptions

\* the class hierarchy: each class and its base classes
Bases ==
    [ValueError |-> {"ValueError", "Exception"},
     RuntimeError |-> {"RuntimeError", "Exception"},
     NotImplementedError |-> {"NotImplementedError", "RuntimeError", "Exception"},
     FileNotFoundError |-> {"FileNotFoundError", "OSError", "Exception"},
     APIConnectionError |-> {"APIConnectionError", "APIError", "Exception"}]

IsInstance(cls, base) == base \in Bases[cls]

InvalidPersonaError ==
    [cls |-> "ValueError", msg |-> "MSG_CHOOSE_A_OR_B", origin |-> "persona"]

MissingKeyError ==
    [cls |-> "RuntimeError", msg |-> "MSG_KEY_NOT_FOUND", origin |-> "config"]

\* st.secrets.get failing because no secrets can be loaded
SecretsLookupError ==
    [cls |-> "FileNotFoundError", msg |-> "No secrets found", origin |-> "lookup"]

\* llm.invoke may raise an exception of any class
RemoteFailures ==
    {[cls |-> c, msg |-> m, origin |-> "remote"] :
        c \in {"RuntimeError", "NotImplementedError", "ValueError", "APIConnectionError"},
        m \in {"", "Connection error."}}

\* ------------------------------------------------------------- handler

\* variant: the stripped text is passed on
HandlerArgumentStripped(text) == Strip(text)

\* the handler passes user_input itself to ask_expert
HandlerArgument(text) == text

\* variant: the "except Exception" clause is missing
ExceptClauseRuntimeOnly(cls) ==
    IF IsInstance(cls, "RuntimeError") THEN "runtime" ELSE "none"

\* the first except clause that matches: RuntimeError, then Exception
ExceptClause(cls) ==
    IF IsInstance(cls, "RuntimeError") THEN "runtime"
    ELSE IF IsInstance(cls, "Exception") THEN "generic"
    ELSE "none"

WarningPanel == [kind |-> "warning", text |-> <<"MSG_ENTER_QUESTION">>]

SuccessPanel == [kind |-> "success", text |-> <<"MSG_ANSWER">>]

HintPanel == [kind |-> "info", text |-> <<"MSG_SET_KEY_IN_ENV_OR_SECRETS">>]

GenericErrorPanel(e) ==
    [kind |-> "error", text |-> <<"MSG_ERROR_OCCURRED: ", e.cls, ": ", e.msg>>]

PlainErrorPanel(e) == [kind |-> "error", text |-> <<e.msg>>]

\* what the matching except clause renders
ExceptPanels(e) ==
    IF ExceptClause(e.cls) = "runtime" THEN <<PlainErrorPanel(e), HintPanel>>
    ELSE IF ExceptClause(e.cls) = "generic" THEN <<GenericErrorPanel(e)>>
    ELSE <<>>

\* ----------------------------------------------------------------- Init

Init ==
    /\ secretsFile \in BOOLEAN
    /\ secretStore \in KeyValues
    /\ secretsFile = FALSE => secretStore = None
    /\ environ \in EnvValues
    /\ pc = "idle"
    /\ caller = "ui"
    /\ expert_choice = "A"
    /\ user_input = <<>>
    /\ temperature = 20
    /\ input_text = <<>>
    /\ api_key = None
    /\ reads = <<>>
    /\ steps = <<>>
    /\ sent = <<>>
    /\ result = None
    /\ answer = None
    /\ exc = None
    /\ spinner = FALSE
    /\ panels = <<>>
    /\ runs = 0
    /\ totalCalls = 0

\* -------------------------------------------------------------- actions

Resting == pc \in {"done", "returned", "propagated", "crashed"}

\* a run is over: its values are discarded, and the page (rebuilt from the
\* top of the script on the next interaction) awaits the next run
Discard ==
    /\ Resting
    /\ pc' = "idle"
    /\ caller' = "ui"
    /\ expert_choice' = "A"
    /\ user_input' = <<>>
    /\ temperature' = 20
    /\ input_text' = <<>>
    /\ api_key' = None
    /\ reads' = <<>>
    /\ steps' = <<>>
    /\ sent' = <<>>
    /\ result' = None
    /\ answer' = None
    /\ exc' = None
    /\ spinner' = FALSE
    /\ panels' = <<>>
    /\ UNCHANGED <<config, runs, totalCalls>>

StartRun ==
    /\ pc = "idle"
    /\ runs < MaxRuns
    /\ runs' = runs + 1
    /\ UNCHANGED <<config, api_key, reads, steps, sent, result, answer, exc,
                   spinner, panels, totalCalls>>

\* the form is submitted: the script runs with the widgets' values
Submit(tag, text, temp) ==
    /\ StartRun
    /\ caller' = "ui"
    /\ expert_choice' = tag
    /\ user_input' = text
    /\ temperature' = temp
    /\ input_text' = <<>>
    /\ pc' = "handler"

\* ask_expert is called directly, outside the form handler
CallAskExpert(text, tag, temp) ==
    /\ StartRun
    /\ caller' = "direct"
    /\ expert_choice' = tag
    /\ user_input' = <<>>
    /\ temperature' = temp
    /\ input_text' = text
    /\ pc' = "validate"

\* an exception leaves ask_expert: the spinner block is left, and control
\* reaches the handler's except clauses or the direct caller
Raise(e) ==
    /\ exc' = Some(e)
    /\ spinner' = FALSE
    /\ pc' = IF caller = "ui" THEN "except" ELSE "propagated"

\* "if not user_input.strip(): st.warning(...) else: with st.spinner(...)"
CheckBlank ==
    /\ pc = "handler"
    /\ steps' = Append(steps, "blank_check")
    /\ IF IsBlank(user_input)
       THEN /\ panels' = Append(panels, WarningPanel)
            /\ pc' = "done"
            /\ UNCHANGED <<spinner, input_text>>
       ELSE /\ spinner' = TRUE
            /\ input_text' = HandlerArgument(user_input)
            /\ pc' = "validate"
            /\ UNCHANGED panels
    /\ UNCHANGED <<config, caller, expert_choice, user_input, temperature,
                   api_key, reads, sent, result, answer, exc, runs, totalCalls>>

\* "if expert_choice not in SYSTEM_PROMPTS: raise ValueError(...)"
ValidatePersona ==
    /\ pc = "validate"
    /\ steps' = Append(steps, "validate")
    /\ IF ValidPersona(expert_choice)
       THEN /\ pc' = "resolve"
            /\ UNCHANGED <<exc, spinner>>
       ELSE Raise(InvalidPersonaError)
    /\ UNCHANGED <<config, caller, expert_choice, user_input, temperature,
                   input_text, api_key, reads, sent, result, answer, panels,
                   runs, totalCalls>>

\* "api_key = get_api_key(); if not api_key: raise RuntimeError(...)"
ResolveCredential ==
    /\ pc = "resolve"
    /\ steps' = Append(steps, "resolve")
    /\ LET r == get_api_key(secretsFile, secretStore, environ) IN
         /\ reads' = reads \o r.reads
         /\ IF r.raised
            THEN /\ Raise(SecretsLookupError)
                 /\ UNCHANGED api_key
            ELSE /\ api_key' = r.key
                 /\ IF KeyMissing(r.key)
                    THEN Raise(MissingKeyError)
                    ELSE /\ pc' = "invoke"
                         /\ UNCHANGED <<exc, spinner>>
    /\ UNCHANGED <<config, caller, expert_choice, user_input, temperature,
                   input_text, sent, result, answer, panels, runs, totalCalls>>

\* the client is built, the messages are built and llm.invoke is called
Invoke ==
    /\ pc = "invoke"
    /\ steps' = Append(steps, "invoke")
    /\ sent' = Append(sent, BuildRequest(api_key[1], temperature, input_text,
                                         expert_choice))
    /\ totalCalls' = totalCalls + 1
    /\ UNCHANGED <<config, caller, expert_choice, user_input, temperature,
                   input_text, api_key, reads, answer, panels, runs>>

\* llm.invoke returns a response
RemoteCallReturns(resp) ==
    /\ Invoke
    /\ result' = Some(resp)
    /\ pc' = "extract"
    /\ UNCHANGED <<exc, spinner>>

\* llm.invoke raises
RemoteCallFails(e) ==
    /\ Invoke
    /\ Raise(e)
    /\ UNCHANGED result

\* "return result.content if hasattr(result, 'content') else str(result)"
ExtractContent ==
    /\ pc = "extract"
    /\ steps' = Append(steps, "extract")
    /\ answer' = Some(ExtractText(result[1]))
    /\ spinner' = FALSE
    /\ pc' = IF caller = "ui" THEN "render" ELSE "returned"
    /\ UNCHANGED <<config, caller, expert_choice, user_input, temperature,
                   input_text, api_key, reads, sent, result, exc, panels,
                   runs, totalCalls>>

\* "st.success(...); st.write(answer)"
RenderSuccess ==
    /\ pc = "render"
    /\ steps' = Append(steps, "render")
    /\ panels' = panels \o <<SuccessPanel, [kind |-> "write", text |-> answer[1]]>>
    /\ pc' = "done"
    /\ UNCHANGED <<config, caller, expert_choice, user_input, temperature,
                   input_text, api_key, reads, sent, result, answer, exc,
                   spinner, runs, totalCalls>>

\* the handler's except clauses
HandleExcept ==
    /\ pc = "except"
    /\ steps' = Append(steps, "except")
    /\ panels' = panels \o ExceptPanels(exc[1])
    /\ pc' = IF ExceptClause(exc[1].cls) = "none" THEN "crashed" ELSE "done"
    /\ UNCHANGED <<config, caller, expert_choice, user_input, temperature,
                   input_text, api_key, reads, sent, result, answer, exc,
                   spinner, runs, totalCalls>>

Next ==
    \/ \E tag \in UiPersonas, text \in Texts, temp \in Temperatures :
          Submit(tag, text, temp)
    \/ \E text \in Texts, tag \in UiPersonas \cup OtherTags, temp \in Temperatures :
          CallAskExpert(text, tag, temp)
    \/ CheckBlank
    \/ ValidatePersona
    \/ ResolveCredential
    \/ \E resp \in Responses : RemoteCallReturns(resp)
    \/ \E e \in RemoteFailures : RemoteCallFails(e)
    \/ ExtractContent
    \/ RenderSuccess
    \/ HandleExcept
    \/ Discard

Spec == Init /\ [][Next]_vars

\* ---------------------------------------------------------------- claims

Range(seq) == {seq[i] : i \in 1..Len(seq)}

PanelKinds == {panels[i].kind : i \in 1..Len(panels)}

AllWhitespace(s) == \A i \in 1..Len(s) : s[i] \in Whitespace

UiRun == caller = "ui" /\ pc # "idle"

\* the first non-empty value in the order secret store, environment
FirstNonEmpty ==
    IF secretStore # None /\ secretStore # Some("") THEN secretStore
    ELSE IF environ # None /\ environ # Some("") THEN environ
    ELSE None

\* C1 (as claimed): a handled error that is not the missing-configuration
\* error is shown as exactly the generic error panel with its class name and
\* message, and the remediation hint appears only for the
\* missing-configuration error.
C1_GenericUnlessMissingConfig ==
    /\ (UiRun /\ pc = "done" /\ exc # None /\ exc[1].origin # "config")
          => panels = <<GenericErrorPanel(exc[1])>>
    /\ (UiRun /\ HintPanel \in Range(panels))
          => (exc # None /\ exc[1].origin = "config")

\* C2: once ask_expert has validated a persona tag outside {A, B}, it has
\* raised ValueError, and it has read neither configuration source, holds no
\* credential, has sent no request and returns nothing.
C2_InvalidPersonaFailsFirst ==
    (pc # "idle" /\ expert_choice \notin {"A", "B"} /\ "validate" \in Range(steps))
       => /\ exc # None
          /\ exc[1].cls = "ValueError"
          /\ exc[1].origin = "persona"
          /\ pc = "propagated"
          /\ reads = <<>>
          /\ api_key = None
          /\ sent = <<>>
          /\ answer = None

C2_Witness ==
    /\ pc = "propagated"
    /\ expert_choice = "C"
    /\ environ = Some("sk-env")
    /\ exc = Some(InvalidPersonaError)

C4_EnvOnlyWhenStoreLacksKey ==
    "env" \in Range(reads) => secretStore = None

\* C4 (amended): the secret store is read first, and the environment variable
\* is consulted only when the secret store's value is absent or empty; with a
\* non-empty value in the secret store the only source read is the store.
C4_EnvOnlyWhenStoreValueFalsy ==
    /\ reads # <<>> => reads[1] = "secrets"
    /\ "env" \in Range(reads) => (secretsFile /\ secretStore \in {None, Some("")})
    /\ (secretStore = Some("sk-secret") /\ "resolve" \in Range(steps))
          => reads = <<"secrets">>

C4_Witness ==
    /\ secretStore = Some("sk-secret")
    /\ environ = Some("sk-env")
    /\ reads = <<"secrets">>
    /\ api_key = Some("sk-secret")

C6_TwoMessagesVerbatim ==
    \A i \in 1..Len(sent) :
       /\ Len(sent[i].messages) = 2
       /\ sent[i].messages[1] =
             [role |-> "system",
              content |-> IF expert_choice = "A" THEN "PROMPT_COOKING_EXPERT"
                          ELSE "PROMPT_FINANCE_EXPERT"]
       /\ expert_choice \in {"A", "B"}
       /\ sent[i].messages[2] =
             [role |-> "human",
              content |-> IF caller = "ui" THEN user_input ELSE input_text]

C6_Witness ==
    /\ caller = "ui"
    /\ expert_choice = "B"
    /\ user_input = <<" ", "a">>
    /\ Len(sent) = 1
    /\ sent[1].messages[2].content = <<" ", "a">>

C8_BlankIsNoOp ==
    /\ [](UiRun /\ AllWhitespace(user_input) /\ pc # "handler"
             => /\ pc = "done"
                /\ panels = <<WarningPanel>>
                /\ sent = <<>>
                /\ reads = <<>>
                /\ api_key = None
                /\ exc = None
                /\ answer = None)
    /\ [][(UiRun /\ AllWhitespace(user_input) /\ pc = "handler")
             => (totalCalls' = totalCalls /\ config' = config
                   /\ pc' = "done")]_vars

C8_Witness ==
    /\ pc = "done"
    /\ caller = "ui"
    /\ runs = 2
    /\ user_input = <<" ", "\n">>
    /\ secretsFile
    /\ secretStore = None
    /\ environ = None
    /\ panels = <<WarningPanel>>

\* C9: in a submission no exception escapes the handler; a handled failure is
\* shown in an error panel that carries its message; and a run that failed
\* has sent one request if the remote call failed and none otherwise.
C9_AllFailuresCaught ==
    UiRun
       => /\ pc # "crashed"
          /\ (pc = "done" /\ exc # None)
                => /\ panels # <<>>
                   /\ panels[1].kind = "error"
                   /\ exc[1].msg \in Range(panels[1].text)
                   /\ "warning" \notin PanelKinds
                   /\ "success" \notin PanelKinds
          /\ exc # None
                => /\ Len(sent) = (IF exc[1].origin = "remote" THEN 1 ELSE 0)
                   /\ pc \in {"except", "done"}
                   /\ result = None

C9_Witness ==
    /\ pc = "done"
    /\ caller = "ui"
    /\ exc # None
    /\ exc[1].cls = "APIConnectionError"
    /\ exc[1].origin = "remote"
    /\ panels = <<GenericErrorPanel(exc[1])>>

\* the steps of a submission, in program order
HandlerOrder == <<"blank_check", "validate", "resolve", "invoke", "extract", "render">>

\* the steps taken, without the final exception handling
StepsTaken ==
    IF steps # <<>> /\ steps[Len(steps)] = "except"
    THEN SubSeq(steps, 1, Len(steps) - 1) ELSE steps

\* C10: the steps of a submission are an initial part of the order blank
\* check, persona validation, credential resolution, remote call, extraction,
\* rendering; a step is taken only if the earlier ones passed; at most one
\* request is sent and each source is read at most once; a finished
\* submission with non-blank text, a valid persona and a credential found
\* has sent exactly one request; the success panel is shown only after the
\* call returned, without a warning or an error panel.
C10_FixedOrderOneCall ==
    UiRun
       => /\ Len(StepsTaken) <= Len(HandlerOrder)
          /\ StepsTaken = SubSeq(HandlerOrder, 1, Len(StepsTaken))
          /\ "validate" \in Range(steps) => ~AllWhitespace(user_input)
          /\ "resolve" \in Range(steps) => expert_choice \in {"A", "B"}
          /\ "invoke" \in Range(steps) => (secretsFile /\ FirstNonEmpty # None)
          /\ Len(sent) <= 1
          /\ Len(reads) <= 2
          /\ Len(reads) = Cardinality(Range(reads))
          /\ (pc = "done" /\ ~AllWhitespace(user_input) /\ expert_choice \in {"A", "B"}
                /\ secretsFile /\ FirstNonEmpty # None)
                => (Len(sent) = 1 /\ sent[1].api_key = FirstNonEmpty[1])
          /\ "success" \in PanelKinds
                => /\ result # None
                   /\ exc = None
                   /\ Len(sent) = 1
                   /\ PanelKinds = {"success", "write"}

C10_Witness ==
    /\ pc = "done"
    /\ caller = "ui"
    /\ secretStore = Some("")
    /\ environ = Some("sk-env")
    /\ steps = HandlerOrder
    /\ Len(sent) = 1
    /\ panels = <<SuccessPanel, [kind |-> "write", text |-> <<"T", "t">>]>>

====
